---- MODULE Spec2Model ----
(***************************************************************************)
(* Recipe API (Django REST framework): the Tag, Ingredient and Recipe      *)
(* tables, the two many-to-many link tables, and the ModelViewSet          *)
(* operations of RecipeViewSet, TagsViewSet and IngredientsViewSet with    *)
(* the nested get-or-create of RecipeSerializer.                           *)
(***************************************************************************)
EXTENDS Integers, Sequences, FiniteSets, TLC

VARIABLES
    tag,                \* rows of core_tag: [id, user, name]
    ingredient,         \* rows of core_ingredient: [id, user, name]
    recipe,             \* rows of core_recipe
    recipe_tags,        \* rows of core_recipe_tags: <<recipe id, tag id>>
    recipe_ingredients, \* rows of core_recipe_ingredients
    tagSeq,             \* last id the Tag table handed out
    ingSeq,             \* last id the Ingredient table handed out
    recipeSeq,          \* last id the Recipe table handed out
    last,               \* the request just served and its response
    prev,               \* the Recipe create served before it (SpecSeq)
    inflight            \* requests in progress (concurrent specification)

vars == <<tag, ingredient, recipe, recipe_tags, recipe_ingredients,
          tagSeq, ingSeq, recipeSeq, last, prev, inflight>>

db_vars == <<tag, ingredient, recipe, recipe_tags, recipe_ingredients,
             tagSeq, ingSeq, recipeSeq>>

----------------------------------------------------------------------------
(* Bounds of the model *)

MaxTagId == 2
MaxIngId == 1
MaxRecipeId == 2

Users == {"u1", "u2"}
Names == {"a", "b"}

(* Optional values: a key absent from a payload is None *)
None == <<>>
Some(x) == <<x>>
IsSome(o) == Len(o) = 1
Val(o) == o[1]
SeqToSet(s) == {s[i] : i \in 1..Len(s)}

----------------------------------------------------------------------------
(* HTTP status codes of rest_framework.status *)

HTTP_200_OK == "200"
HTTP_201_CREATED == "201"
HTTP_204_NO_CONTENT == "204"
HTTP_400_BAD_REQUEST == "400"
HTTP_404_NOT_FOUND == "404"
HTTP_500_INTERNAL_SERVER_ERROR == "500"

----------------------------------------------------------------------------
(* Rows *)

TagRow(id, u, n) == [id |-> id, user |-> u, name |-> n]

IngredientRow(id, u, n) == [id |-> id, user |-> u, name |-> n]

(* recipe.tags.all() / recipe.ingredients.all(), as sets of ids *)
TagsOf(links, rid) == {l[2] : l \in {x \in links : x[1] = rid}}

RECURSIVE SortDesc(_)
SortDesc(S) ==
    IF S = {} THEN <<>>
    ELSE LET m == CHOOSE x \in S : \A y \in S : y <= x
         IN  <<m>> \o SortDesc(S \ {m})

----------------------------------------------------------------------------
(* Serializers *)

(* Meta.fields with the owner among the writable fields *)
RecipeFields_with_user ==
    {"title", "time_minutes", "price", "link", "tags", "ingredients",
     "description", "user"}

(* RecipeDetailSerializer.Meta.fields without the read-only id: the keys of *)
(* a payload that reach validated_data; every other key is dropped.         *)
RecipeFields ==
    {"title", "time_minutes", "price", "link", "tags", "ingredients",
     "description"}

(* TagSerializer / IngredientsSerializer: fields id (read-only) and name *)
NameFields == {"name"}

(* Model fields without blank=True or a default: required unless partial *)
RequiredFields == {"title", "time_minutes", "price", "description"}

validated_data(p, fields) ==
    [k \in DOMAIN p |-> IF k \in fields THEN p[k] ELSE None]

(* DecimalField(max_digits=5, decimal_places=2), the price held in cents *)
PriceOk(c) == -99999 <= c /\ c <= 99999

(* IntegerField(): any integer the 32-bit column holds; the field sets no *)
(* lower bound of its own                                                 *)
TimeOk(m) == -2147483647 - 1 <= m /\ m <= 2147483647

(* serializer.is_valid(): required keys present unless partial, and each *)
(* present value accepted by its field                                   *)
is_valid(p, partial) ==
    /\ partial \/ \A k \in RequiredFields : IsSome(p[k])
    /\ IsSome(p.price) => PriceOk(Val(p.price))
    /\ IsSome(p.time_minutes) => TimeOk(Val(p.time_minutes))

----------------------------------------------------------------------------
(* get_or_create with the lookup by name alone, whoever owns the row *)
get_or_create_any_owner(rows, seq, u, n) ==
    LET m == {t \in rows : t.name = n}
    IN  IF m # {}
        THEN [obj |-> (CHOOSE t \in m : TRUE).id, rows |-> rows, seq |-> seq,
              raised |-> FALSE]
        ELSE [obj |-> seq + 1, rows |-> rows \cup {TagRow(seq + 1, u, n)},
              seq |-> seq + 1, raised |-> FALSE]

(* a create where get_or_create stands: a row is inserted on every call *)
get_or_create_always_insert(rows, seq, u, n) ==
    [obj |-> seq + 1, rows |-> rows \cup {TagRow(seq + 1, u, n)},
     seq |-> seq + 1, raised |-> FALSE]

(* Tag.objects.get_or_create(user=auth_user, name=n) and the same call on   *)
(* Ingredient: one match is returned, no match inserts a row, several       *)
(* matches raise MultipleObjectsReturned.                                   *)
get_or_create(rows, seq, u, n) ==
    LET m == {t \in rows : t.user = u /\ t.name = n}
    IN  IF Cardinality(m) = 1
        THEN [obj |-> (CHOOSE t \in m : TRUE).id, rows |-> rows, seq |-> seq,
              raised |-> FALSE]
        ELSE IF m = {}
        THEN [obj |-> seq + 1, rows |-> rows \cup {TagRow(seq + 1, u, n)},
              seq |-> seq + 1, raised |-> FALSE]
        ELSE [obj |-> 0, rows |-> rows, seq |-> seq, raised |-> TRUE]

(* RecipeSerializer._assigne_tags: st = [rows, seq, links, raised] is the   *)
(* Tag table, its id sequence and recipe.tags' link table.                  *)
RECURSIVE assigne_tags(_, _, _, _)
assigne_tags(st, names, auth_user, rid) ==
    IF names = <<>> \/ st.raised THEN st
    ELSE LET g == get_or_create(st.rows, st.seq, auth_user, Head(names))
         IN  IF g.raised THEN [st EXCEPT !.raised = TRUE]
             ELSE assigne_tags(
                    [rows |-> g.rows, seq |-> g.seq,
                     links |-> st.links \cup {<<rid, g.obj>>},
                     raised |-> FALSE],
                    Tail(names), auth_user, rid)

(* RecipeSerializer._assigne_ingredients: the same loop on the Ingredient   *)
(* table and recipe.ingredients' link table.                                *)
RECURSIVE assigne_ingredients(_, _, _, _)
assigne_ingredients(st, names, auth_user, rid) ==
    IF names = <<>> \/ st.raised THEN st
    ELSE LET g == get_or_create(st.rows, st.seq, auth_user, Head(names))
         IN  IF g.raised THEN [st EXCEPT !.raised = TRUE]
             ELSE assigne_ingredients(
                    [rows |-> g.rows, seq |-> g.seq,
                     links |-> st.links \cup {<<rid, g.obj>>},
                     raised |-> FALSE],
                    Tail(names), auth_user, rid)

(* link rows that outlive what they link *)
clear_none(links, rid) == links

(* instance.tags.clear() / instance.ingredients.clear() *)
clear(links, rid) == {l \in links : l[1] # rid}

----------------------------------------------------------------------------
(* Requests the model draws *)

NoParams == [tags |-> <<>>, ingredients |-> <<>>]

(* query parameters of a Recipe list: tags / ingredients id lists *)
ListParams ==
    {NoParams, [tags |-> <<1>>, ingredients |-> <<>>],
     [tags |-> <<1, 2>>, ingredients |-> <<>>],
     [tags |-> <<>>, ingredients |-> <<1>>],
     [tags |-> <<1>>, ingredients |-> <<1>>]}

NoPayload ==
    [title |-> None, time_minutes |-> None, price |-> None, link |-> None,
     description |-> None, tags |-> None, ingredients |-> None, user |-> None]

(* every required field of a Recipe *)
Full(title, time, price, desc) ==
    [NoPayload EXCEPT !.title = Some(title), !.time_minutes = Some(time),
                      !.price = Some(price), !.description = Some(desc)]

Sample == Full("t1", 30, 599, "d1")

(* POST bodies: the nested lists, an owner key, a body without its         *)
(* required fields                                                        *)
CreatePayloads ==
    {[Sample EXCEPT !.tags = t, !.ingredients = i] :
        t \in {None, Some(<<"a">>), Some(<<"a", "b">>)},
        i \in {None, Some(<<"a">>)}}
    \cup {[Sample EXCEPT !.tags = Some(<<"a">>), !.user = Some("u2")],
          [NoPayload EXCEPT !.title = Some("t1")]}

(* PATCH (partial) and PUT bodies *)
UpdateRequests ==
    {<<TRUE, [NoPayload EXCEPT !.tags = Some(t)]>> :
        t \in {<<>>, <<"a">>, <<"a", "b">>}}
    \cup {<<TRUE, [NoPayload EXCEPT !.ingredients = Some(i)]>> :
        i \in {<<>>, <<"a">>}}
    \cup {<<TRUE, [NoPayload EXCEPT !.tags = Some(<<"b">>),
                                   !.ingredients = Some(<<"a">>)]>>,
          <<TRUE, [NoPayload EXCEPT !.user = Some("u2")]>>,
          <<TRUE, [NoPayload EXCEPT !.title = Some("t1")]>>,
          <<FALSE, Sample>>,
          <<FALSE, [Sample EXCEPT !.tags = Some(<<"a">>), !.user = Some("u2")]>>,
          <<FALSE, [NoPayload EXCEPT !.title = Some("t1")]>>}

NamePayloads ==
    {[name |-> Some(n), user |-> None] : n \in Names}
    \cup {[name |-> Some("a"), user |-> Some("u2")]}

Response(op, u, id, req, status, body) ==
    [op |-> op, user |-> u, id |-> id, req |-> req, status |-> status,
     body |-> body]

NoResponse == Response("none", "u1", 0, NoParams, HTTP_200_OK, <<>>)

Idle == last = NoResponse

----------------------------------------------------------------------------
(* RecipeViewSet *)

(* get_queryset without filter(user=self.request.user) *)
recipe_queryset_no_owner(u, params) ==
    {r \in recipe :
        /\ params.tags # <<>> =>
              TagsOf(recipe_tags, r.id) \cap SeqToSet(params.tags) # {}
        /\ params.ingredients # <<>> =>
              TagsOf(recipe_ingredients, r.id)
                  \cap SeqToSet(params.ingredients) # {}}

(* RecipeViewSet.get_queryset: the tags / ingredients filters, the owner  *)
(* filter and distinct(), as a set of rows                                *)
recipe_queryset(u, params) ==
    {r \in recipe :
        /\ params.tags # <<>> =>
              TagsOf(recipe_tags, r.id) \cap SeqToSet(params.tags) # {}
        /\ params.ingredients # <<>> =>
              TagsOf(recipe_ingredients, r.id)
                  \cap SeqToSet(params.ingredients) # {}
        /\ r.user = u}

(* GenericAPIView.get_object on a queryset: the rows with that pk *)
get_object(qs, id) == {r \in qs : r.id = id}

(* filter(tags__id__in=...) and filter(ingredients__id__in=...) are joins *)
(* with the link tables: a Recipe comes once per link to a listed id, and *)
(* with both filters once per pair of such links                          *)
join_count(r, params) ==
    (IF params.tags # <<>>
     THEN Cardinality(TagsOf(recipe_tags, r.id) \cap SeqToSet(params.tags))
     ELSE 1)
    * (IF params.ingredients # <<>>
       THEN Cardinality(TagsOf(recipe_ingredients, r.id)
                            \cap SeqToSet(params.ingredients))
       ELSE 1)

RECURSIVE repeat(_, _)
repeat(x, n) == IF n = 0 THEN <<>> ELSE <<x>> \o repeat(x, n - 1)

(* the rows of the join for the ids in that order *)
RECURSIVE join_rows(_, _, _)
join_rows(ids, qs, params) ==
    IF ids = <<>> THEN <<>>
    ELSE repeat(Head(ids),
                join_count(CHOOSE r \in qs : r.id = Head(ids), params))
         \o join_rows(Tail(ids), qs, params)

(* a list that keeps the rows of the join as they come *)
distinct_off(s) == s

(* .distinct(): each row once, at its first place *)
RECURSIVE distinct(_)
distinct(s) ==
    IF s = <<>> THEN <<>>
    ELSE <<Head(s)>> \o distinct(SelectSeq(Tail(s), LAMBDA x : x # Head(s)))

(* list: the filtered rows, order_by('-id'), distinct() *)
RecipeList(u, params) ==
    /\ Idle
    /\ /\ LET qs == recipe_queryset(u, params)
          IN  last' = Response("recipe_list", u, 0, params, HTTP_200_OK,
                               distinct(join_rows(SortDesc({r.id : r \in qs}),
                                                  qs, params)))
       /\ UNCHANGED <<db_vars, prev, inflight>>

RecipeRetrieve(u, id) ==
    /\ Idle
    /\ /\ LET found == get_object(recipe_queryset(u, NoParams), id)
          IN  last' = IF found = {}
                      THEN Response("recipe_retrieve", u, id, NoParams,
                                    HTTP_404_NOT_FOUND, <<>>)
                      ELSE Response("recipe_retrieve", u, id, NoParams,
                                    HTTP_200_OK, <<id>>)
       /\ UNCHANGED <<db_vars, prev, inflight>>

(* a save that lets a 'user' key of the payload name the owner *)
perform_create_payload_user(u, p, fields) ==
    [validated_data(p, fields) EXCEPT
        !.user = IF IsSome(p.user) THEN p.user ELSE Some(u)]

(* RecipeViewSet.perform_create: serializer.save(user=self.request.user) *)
perform_create(u, p, fields) ==
    [validated_data(p, fields) EXCEPT !.user = Some(u)]

(* Recipe.objects.create with validated_data; link defaults to the empty string *)
create_row(id, vd) ==
    [id |-> id, user |-> Val(vd.user), title |-> Val(vd.title),
     description |-> Val(vd.description),
     time_minutes |-> Val(vd.time_minutes), price |-> Val(vd.price),
     link |-> IF IsSome(vd.link) THEN Val(vd.link) ELSE ""]

(* validated_data.pop(key, []) *)
pop(o, default) == IF IsSome(o) THEN Val(o) ELSE default

(* the rows of a table with that owner and name *)
Named(rows, u, n) == {t \in rows : t.user = u /\ t.name = n}

(* the names of a nested tags / ingredients key; none when it is absent *)
NamesIn(o) == SeqToSet(pop(o, <<>>))

(* POST /recipes/: RecipeSerializer.create *)
RecipeCreate(u, p) ==
    /\ Idle
    /\ IF ~is_valid(p, FALSE)
       THEN /\ last' = Response("recipe_create", u, 0, p, HTTP_400_BAD_REQUEST, <<>>)
            /\ UNCHANGED <<db_vars, prev, inflight>>
       ELSE LET vd == perform_create(u, p, RecipeFields)
                rid == recipeSeq + 1
                t == assigne_tags([rows |-> tag, seq |-> tagSeq,
                                   links |-> recipe_tags, raised |-> FALSE],
                                  pop(vd.tags, <<>>), u, rid)
                i == IF t.raised
                     THEN [rows |-> ingredient, seq |-> ingSeq,
                           links |-> recipe_ingredients, raised |-> TRUE]
                     ELSE assigne_ingredients(
                            [rows |-> ingredient, seq |-> ingSeq,
                             links |-> recipe_ingredients, raised |-> FALSE],
                            pop(vd.ingredients, <<>>), u, rid)
            IN  /\ rid <= MaxRecipeId
                /\ t.seq <= MaxTagId
                /\ i.seq <= MaxIngId
                /\ recipe' = recipe \cup {create_row(rid, vd)}
                /\ recipeSeq' = rid
                /\ tag' = t.rows
                /\ tagSeq' = t.seq
                /\ recipe_tags' = t.links
                /\ ingredient' = i.rows
                /\ ingSeq' = i.seq
                /\ recipe_ingredients' = i.links
                /\ last' = Response("recipe_create", u, rid, p,
                                    IF i.raised THEN HTTP_500_INTERNAL_SERVER_ERROR
                                    ELSE HTTP_201_CREATED, <<>>)
                /\ UNCHANGED <<prev, inflight>>

(* the loop setattr(instance, attr, value) over what is left of            *)
(* validated_data, then instance.save()                                   *)
setattrs(r, vd) ==
    [k \in DOMAIN r |->
        IF k \in DOMAIN vd /\ k \notin {"tags", "ingredients"} /\ IsSome(vd[k])
        THEN Val(vd[k]) ELSE r[k]]

(* RecipeSerializer.update on the Tag table and both link tables: tags    *)
(* cleared and assigned, then ingredients cleared and their names handed  *)
(* to _assigne_tags                                                       *)
update(instance, vd, u) ==
    LET t0 == [rows |-> tag, seq |-> tagSeq,
               links |-> IF IsSome(vd.tags) THEN clear(recipe_tags, instance.id)
                         ELSE recipe_tags,
               raised |-> FALSE]
        t1 == assigne_tags(t0, pop(vd.tags, <<>>), u, instance.id)
        cleared == IsSome(vd.ingredients) /\ ~t1.raised
        t2 == assigne_tags(t1, pop(vd.ingredients, <<>>), u, instance.id)
    IN  [tags |-> t2,
         ingredient_links |-> IF cleared
                              THEN clear(recipe_ingredients, instance.id)
                              ELSE recipe_ingredients,
         row |-> IF t2.raised THEN instance ELSE setattrs(instance, vd)]

(* PUT / PATCH /recipes/<id>/ *)
RecipeUpdate(u, id, partial, p) ==
    /\ Idle
    /\ LET found == get_object(recipe_queryset(u, NoParams), id)
           op == IF partial THEN "recipe_patch" ELSE "recipe_put"
       IN  IF found = {}
           THEN /\ last' = Response(op, u, id, NoPayload, HTTP_404_NOT_FOUND, <<>>)
                /\ UNCHANGED <<db_vars, prev, inflight>>
           ELSE IF ~is_valid(p, partial)
           THEN /\ last' = Response(op, u, id, p, HTTP_400_BAD_REQUEST, <<>>)
                /\ UNCHANGED <<db_vars, prev, inflight>>
           ELSE LET instance == CHOOSE r \in found : TRUE
                    res == update(instance, validated_data(p, RecipeFields), u)
                IN  /\ res.tags.seq <= MaxTagId
                    /\ tag' = res.tags.rows
                    /\ tagSeq' = res.tags.seq
                    /\ recipe_tags' = res.tags.links
                    /\ recipe_ingredients' = res.ingredient_links
                    /\ recipe' = (recipe \ {instance}) \cup {res.row}
                    /\ last' = Response(op, u, id, p,
                                        IF res.tags.raised
                                        THEN HTTP_500_INTERNAL_SERVER_ERROR
                                        ELSE HTTP_200_OK, <<>>)
                    /\ UNCHANGED <<ingredient, ingSeq, recipeSeq, prev, inflight>>

(* DELETE /recipes/<id>/: the row and its rows in both link tables *)
RecipeDelete(u, id) ==
    /\ Idle
    /\ LET found == get_object(recipe_queryset(u, NoParams), id)
       IN  IF found = {}
           THEN /\ last' = Response("recipe_delete", u, id, NoParams,
                                    HTTP_404_NOT_FOUND, <<>>)
                /\ UNCHANGED <<db_vars, prev, inflight>>
           ELSE /\ recipe' = recipe \ found
                /\ recipe_tags' = clear(recipe_tags, id)
                /\ recipe_ingredients' = clear(recipe_ingredients, id)
                /\ last' = Response("recipe_delete", u, id, NoParams,
                                    HTTP_204_NO_CONTENT, <<>>)
                /\ UNCHANGED <<tag, ingredient, tagSeq, ingSeq, recipeSeq, prev, inflight>>

----------------------------------------------------------------------------
(* TagsViewSet and IngredientsViewSet *)

(* get_queryset without filter(user=self.request.user) *)
name_queryset_no_owner(rows, links, u, assigned_only) ==
    {t \in rows : assigned_only => \E l \in links : l[2] = t.id}

(* TagsViewSet.get_queryset / IngredientsViewSet.get_queryset: rows is the *)
(* table, links its link table; assigned_only keeps the rows some Recipe   *)
(* links (recipe__isnull=False), then the owner filter and distinct()      *)
name_queryset(rows, links, u, assigned_only) ==
    {t \in rows :
        /\ assigned_only => \E l \in links : l[2] = t.id
        /\ t.user = u}

NameOrd(n) == CASE n = "a" -> 1 [] n = "b" -> 2

(* order_by('-name'): every order of the ids with names descending; rows   *)
(* of equal name come in an order the database chooses                    *)
order_by_name_desc(qs) ==
    LET n == Cardinality(qs)
        ids == {t.id : t \in qs}
        nameOf(id) == NameOrd((CHOOSE t \in qs : t.id = id).name)
    IN  {s \in [1..n -> ids] :
            /\ \A i, j \in 1..n : i # j => s[i] # s[j]
            /\ \A i, j \in 1..n : i < j => nameOf(s[i]) >= nameOf(s[j])}

TagList(u, assigned_only) ==
    /\ Idle
    /\ /\ \E body \in order_by_name_desc(
                        name_queryset(tag, recipe_tags, u, assigned_only)) :
             last' = Response("tag_list", u, 0, [assigned_only |-> assigned_only],
                              HTTP_200_OK, body)
       /\ UNCHANGED <<db_vars, prev, inflight>>

TagRetrieve(u, id) ==
    /\ Idle
    /\ /\ LET found == get_object(name_queryset(tag, recipe_tags, u, FALSE), id)
          IN  last' = IF found = {}
                      THEN Response("tag_retrieve", u, id, NoParams,
                                    HTTP_404_NOT_FOUND, <<>>)
                      ELSE Response("tag_retrieve", u, id, NoParams,
                                    HTTP_200_OK, <<id>>)
       /\ UNCHANGED <<db_vars, prev, inflight>>

(* TagsViewSet.perform_create: serializer.save(user=self.request.user) *)
TagCreate(u, p) ==
    /\ Idle
    /\ LET vd == perform_create(u, p, NameFields)
       IN  /\ tagSeq < MaxTagId
           /\ tagSeq' = tagSeq + 1
           /\ tag' = tag \cup {TagRow(tagSeq + 1, Val(vd.user), Val(vd.name))}
           /\ last' = Response("tag_create", u, tagSeq + 1, p, HTTP_201_CREATED, <<>>)
           /\ UNCHANGED <<ingredient, recipe, recipe_tags, recipe_ingredients,
                          ingSeq, recipeSeq, prev, inflight>>

TagUpdate(u, id, p) ==
    /\ Idle
    /\ LET found == get_object(name_queryset(tag, recipe_tags, u, FALSE), id)
       IN  IF found = {}
           THEN /\ last' = Response("tag_update", u, id, p, HTTP_404_NOT_FOUND, <<>>)
                /\ UNCHANGED <<db_vars, prev, inflight>>
           ELSE LET instance == CHOOSE t \in found : TRUE
                IN  /\ tag' = (tag \ {instance})
                                \cup {setattrs(instance, validated_data(p, NameFields))}
                    /\ last' = Response("tag_update", u, id, p, HTTP_200_OK, <<>>)
                    /\ UNCHANGED <<ingredient, recipe, recipe_tags,
                                   recipe_ingredients, tagSeq, ingSeq, recipeSeq,
                                   prev, inflight>>

(* the rows of a link table that name a deleted Tag / Ingredient go with it *)
unlink(links, id) == {l \in links : l[2] # id}

TagDelete(u, id) ==
    /\ Idle
    /\ LET found == get_object(name_queryset(tag, recipe_tags, u, FALSE), id)
       IN  IF found = {}
           THEN /\ last' = Response("tag_delete", u, id, NoParams,
                                    HTTP_404_NOT_FOUND, <<>>)
                /\ UNCHANGED <<db_vars, prev, inflight>>
           ELSE /\ tag' = tag \ found
                /\ recipe_tags' = unlink(recipe_tags, id)
                /\ last' = Response("tag_delete", u, id, NoParams,
                                    HTTP_204_NO_CONTENT, <<>>)
                /\ UNCHANGED <<ingredient, recipe, recipe_ingredients, tagSeq,
                               ingSeq, recipeSeq, prev, inflight>>

IngredientList(u, assigned_only) ==
    /\ Idle
    /\ /\ \E body \in order_by_name_desc(
                        name_queryset(ingredient, recipe_ingredients, u,
                                      assigned_only)) :
             last' = Response("ingredient_list", u, 0,
                              [assigned_only |-> assigned_only], HTTP_200_OK, body)
       /\ UNCHANGED <<db_vars, prev, inflight>>

IngredientRetrieve(u, id) ==
    /\ Idle
    /\ /\ LET found == get_object(
                         name_queryset(ingredient, recipe_ingredients, u, FALSE), id)
          IN  last' = IF found = {}
                      THEN Response("ingredient_retrieve", u, id, NoParams,
                                    HTTP_404_NOT_FOUND, <<>>)
                      ELSE Response("ingredient_retrieve", u, id, NoParams,
                                    HTTP_200_OK, <<id>>)
       /\ UNCHANGED <<db_vars, prev, inflight>>

(* IngredientsViewSet.perform_create *)
IngredientCreate(u, p) ==
    /\ Idle
    /\ LET vd == perform_create(u, p, NameFields)
       IN  /\ ingSeq < MaxIngId
           /\ ingSeq' = ingSeq + 1
           /\ ingredient' = ingredient
                   \cup {IngredientRow(ingSeq + 1, Val(vd.user), Val(vd.name))}
           /\ last' = Response("ingredient_create", u, ingSeq + 1, p,
                               HTTP_201_CREATED, <<>>)
           /\ UNCHANGED <<tag, recipe, recipe_tags, recipe_ingredients, tagSeq,
                          recipeSeq, prev, inflight>>

IngredientUpdate(u, id, p) ==
    /\ Idle
    /\ LET found == get_object(
                      name_queryset(ingredient, recipe_ingredients, u, FALSE), id)
       IN  IF found = {}
           THEN /\ last' = Response("ingredient_update", u, id, p,
                                    HTTP_404_NOT_FOUND, <<>>)
                /\ UNCHANGED <<db_vars, prev, inflight>>
           ELSE LET instance == CHOOSE t \in found : TRUE
                IN  /\ ingredient' = (ingredient \ {instance})
                           \cup {setattrs(instance, validated_data(p, NameFields))}
                    /\ last' = Response("ingredient_update", u, id, p,
                                        HTTP_200_OK, <<>>)
                    /\ UNCHANGED <<tag, recipe, recipe_tags, recipe_ingredients,
                                   tagSeq, ingSeq, recipeSeq, prev, inflight>>

IngredientDelete(u, id) ==
    /\ Idle
    /\ LET found == get_object(
                      name_queryset(ingredient, recipe_ingredients, u, FALSE), id)
       IN  IF found = {}
           THEN /\ last' = Response("ingredient_delete", u, id, NoParams,
                                    HTTP_404_NOT_FOUND, <<>>)
                /\ UNCHANGED <<db_vars, prev, inflight>>
           ELSE /\ ingredient' = ingredient \ found
                /\ recipe_ingredients' = unlink(recipe_ingredients, id)
                /\ last' = Response("ingredient_delete", u, id, NoParams,
                                    HTTP_204_NO_CONTENT, <<>>)
                /\ UNCHANGED <<tag, recipe, recipe_tags, tagSeq, ingSeq,
                               recipeSeq, prev, inflight>>

----------------------------------------------------------------------------
(* The API served one request at a time: a request is taken when no       *)
(* response is pending, and the pending response is then delivered        *)

Init ==
    /\ tag = {}
    /\ ingredient = {}
    /\ recipe = {}
    /\ recipe_tags = {}
    /\ recipe_ingredients = {}
    /\ tagSeq = 0
    /\ ingSeq = 0
    /\ recipeSeq = 0
    /\ last = NoResponse
    /\ prev = NoResponse
    /\ inflight = <<>>

RecipeIds == 1..MaxRecipeId
TagIds == 1..MaxTagId
IngIds == 1..MaxIngId

Request ==
    \/ \E u \in Users, q \in ListParams : RecipeList(u, q)
    \/ \E u \in Users, id \in RecipeIds : RecipeRetrieve(u, id)
    \/ \E u \in Users, p \in CreatePayloads : RecipeCreate(u, p)
    \/ \E u \in Users, id \in RecipeIds, r \in UpdateRequests :
          RecipeUpdate(u, id, r[1], r[2])
    \/ \E u \in Users, id \in RecipeIds : RecipeDelete(u, id)
    \/ \E u \in Users, a \in BOOLEAN : TagList(u, a)
    \/ \E u \in Users, id \in TagIds : TagRetrieve(u, id)
    \/ \E u \in Users, p \in NamePayloads : TagCreate(u, p)
    \/ \E u \in Users, id \in TagIds, p \in NamePayloads : TagUpdate(u, id, p)
    \/ \E u \in Users, id \in TagIds : TagDelete(u, id)
    \/ \E u \in Users, a \in BOOLEAN : IngredientList(u, a)
    \/ \E u \in Users, id \in IngIds : IngredientRetrieve(u, id)
    \/ \E u \in Users, p \in NamePayloads : IngredientCreate(u, p)
    \/ \E u \in Users, id \in IngIds, p \in NamePayloads :
          IngredientUpdate(u, id, p)
    \/ \E u \in Users, id \in IngIds : IngredientDelete(u, id)

(* the response reaches the client *)
Deliver ==
    /\ ~Idle
    /\ last' = NoResponse
    /\ UNCHANGED <<db_vars, prev, inflight>>

Next ==
    \/ Request
    \/ Deliver

Spec == Init /\ [][Next]_vars

(* The same API with the Recipe create served last remembered until the   *)
(* next response is delivered, to speak of two requests in sequence       *)
DeliverAndRemember ==
    /\ ~Idle
    /\ last' = NoResponse
    /\ prev' = IF last.op = "recipe_create" THEN last ELSE NoResponse
    /\ UNCHANGED <<db_vars, inflight>>

NextSeq ==
    \/ Request
    \/ DeliverAndRemember

SpecSeq == Init /\ [][NextSeq]_vars

----------------------------------------------------------------------------
(* The Recipe endpoints under requests that differ in time_minutes: the   *)
(* usual value, zero and a negative one                                   *)

TimeValues == {30, 0, -1}

TimePayloads == {Full("t1", m, 599, "d1") : m \in TimeValues}

TimeUpdates ==
    {<<TRUE, [NoPayload EXCEPT !.time_minutes = Some(m)]>> : m \in TimeValues}
    \cup {<<FALSE, Full("t1", -1, 599, "d1")>>}

RangeRequest ==
    \/ \E u \in Users, p \in TimePayloads : RecipeCreate(u, p)
    \/ \E u \in Users, id \in RecipeIds, r \in TimeUpdates :
          RecipeUpdate(u, id, r[1], r[2])
    \/ \E u \in Users, id \in RecipeIds : RecipeRetrieve(u, id)
    \/ \E u \in Users, id \in RecipeIds : RecipeDelete(u, id)

NextRange ==
    \/ RangeRequest
    \/ Deliver

SpecRange == Init /\ [][NextRange]_vars

----------------------------------------------------------------------------
(* Recipe creates and updates served concurrently: every ORM call of      *)
(* RecipeSerializer.create / update is a statement of its own (the        *)
(* SELECT and the INSERT of get_or_create, the INSERT of tags.add, the    *)
(* DELETE of clear), and statements of two requests interleave.           *)

Procs == {1, 2}

IdleProc ==
    [pc |-> "idle", op |-> "none", user |-> "u1", rid |-> 0, work |-> <<>>,
     obj |-> 0, req |-> NoPayload, status |-> HTTP_200_OK]

(* the get_or_create calls of _assigne_tags / _assigne_ingredients, in    *)
(* order: <<table, name>>                                                 *)
Calls(kind, names) == [i \in 1..Len(names) |-> <<kind, names[i]>>]

(* RecipeSerializer.create: the statements after Recipe.objects.create *)
create_work(vd) ==
    Calls("tag", pop(vd.tags, <<>>))
        \o Calls("ingredient", pop(vd.ingredients, <<>>))

(* RecipeSerializer.update: clear and assign for 'tags', then clear and   *)
(* _assigne_tags for 'ingredients'                                        *)
update_work(vd) ==
    (IF IsSome(vd.tags)
     THEN <<<<"clear_tags", "">>>> \o Calls("tag", Val(vd.tags)) ELSE <<>>)
    \o (IF IsSome(vd.ingredients)
        THEN <<<<"clear_ingredients", "">>>> \o Calls("tag", Val(vd.ingredients))
        ELSE <<>>)

(* the bodies concurrent clients send: nested names only *)
ConcCreates ==
    {[Sample EXCEPT !.tags = t, !.ingredients = i] :
        t \in {None, Some(<<"a">>)}, i \in {None, Some(<<"a">>)}}

ConcPatches ==
    {[NoPayload EXCEPT !.tags = Some(<<"a">>)],
     [NoPayload EXCEPT !.tags = Some(<<"b">>)]}

(* POST: the Recipe row is inserted, the nested names are still to do *)
BeginCreate(i, u, p) ==
    /\ inflight[i].pc = "idle"
    /\ is_valid(p, FALSE)
    /\ recipeSeq < MaxRecipeId
    /\ LET vd == perform_create(u, p, RecipeFields)
       IN  /\ recipe' = recipe \cup {create_row(recipeSeq + 1, vd)}
           /\ recipeSeq' = recipeSeq + 1
           /\ inflight' = [inflight EXCEPT ![i] =
                  [pc |-> "step", op |-> "recipe_create", user |-> u,
                   rid |-> recipeSeq + 1, work |-> create_work(vd), obj |-> 0,
                   req |-> p, status |-> HTTP_201_CREATED]]
    /\ UNCHANGED <<tag, ingredient, recipe_tags, recipe_ingredients, tagSeq,
                   ingSeq, last, prev>>

(* PATCH on a Recipe of the caller: get_object found the instance *)
BeginUpdate(i, u, id, p) ==
    /\ inflight[i].pc = "idle"
    /\ get_object(recipe_queryset(u, NoParams), id) # {}
    /\ is_valid(p, TRUE)
    /\ inflight' = [inflight EXCEPT ![i] =
           [pc |-> "step", op |-> "recipe_patch", user |-> u, rid |-> id,
            work |-> update_work(validated_data(p, RecipeFields)), obj |-> 0,
            req |-> p, status |-> HTTP_200_OK]]
    /\ UNCHANGED <<db_vars, last, prev>>

(* instance.tags.clear() / instance.ingredients.clear() *)
Clear(i) ==
    LET me == inflight[i]
    IN  /\ me.pc = "step"
        /\ me.work # <<>>
        /\ Head(me.work)[1] \in {"clear_tags", "clear_ingredients"}
        /\ IF Head(me.work)[1] = "clear_tags"
           THEN /\ recipe_tags' = clear(recipe_tags, me.rid)
                /\ UNCHANGED recipe_ingredients
           ELSE /\ recipe_ingredients' = clear(recipe_ingredients, me.rid)
                /\ UNCHANGED recipe_tags
        /\ inflight' = [inflight EXCEPT ![i].work = Tail(me.work)]
        /\ UNCHANGED <<tag, ingredient, recipe, tagSeq, ingSeq, recipeSeq,
                       last, prev>>

(* the SELECT of get_or_create: one row is taken, none leads to the       *)
(* INSERT, several raise MultipleObjectsReturned                          *)
Lookup(i) ==
    LET me == inflight[i]
    IN  /\ me.pc = "step"
        /\ me.work # <<>>
        /\ Head(me.work)[1] \in {"tag", "ingredient"}
        /\ LET rows == IF Head(me.work)[1] = "tag" THEN tag ELSE ingredient
               m == Named(rows, me.user, Head(me.work)[2])
           IN  inflight' = [inflight EXCEPT ![i] =
                   IF Cardinality(m) = 1
                   THEN [me EXCEPT !.pc = "add",
                                   !.obj = (CHOOSE t \in m : TRUE).id]
                   ELSE IF m = {}
                   THEN [me EXCEPT !.pc = "insert"]
                   ELSE [me EXCEPT !.pc = "done",
                                   !.status = HTTP_500_INTERNAL_SERVER_ERROR]]
        /\ UNCHANGED <<db_vars, last, prev>>

(* the INSERT of get_or_create; no constraint of the Tag table rejects it *)
Insert(i) ==
    LET me == inflight[i]
    IN  /\ me.pc = "insert"
        /\ IF Head(me.work)[1] = "tag"
           THEN /\ tagSeq < MaxTagId
                /\ tag' = tag \cup {TagRow(tagSeq + 1, me.user, Head(me.work)[2])}
                /\ tagSeq' = tagSeq + 1
                /\ inflight' = [inflight EXCEPT ![i].pc = "add",
                                                ![i].obj = tagSeq + 1]
                /\ UNCHANGED <<ingredient, ingSeq>>
           ELSE /\ ingSeq < MaxIngId
                /\ ingredient' = ingredient
                      \cup {IngredientRow(ingSeq + 1, me.user, Head(me.work)[2])}
                /\ ingSeq' = ingSeq + 1
                /\ inflight' = [inflight EXCEPT ![i].pc = "add",
                                                ![i].obj = ingSeq + 1]
                /\ UNCHANGED <<tag, tagSeq>>
        /\ UNCHANGED <<recipe, recipe_tags, recipe_ingredients, recipeSeq,
                       last, prev>>

(* recipe.tags.add(tag_obj) / recipe.ingredients.add(ing_obj) *)
Link(i) ==
    LET me == inflight[i]
    IN  /\ me.pc = "add"
        /\ IF Head(me.work)[1] = "tag"
           THEN /\ recipe_tags' = recipe_tags \cup {<<me.rid, me.obj>>}
                /\ UNCHANGED recipe_ingredients
           ELSE /\ recipe_ingredients' = recipe_ingredients \cup {<<me.rid, me.obj>>}
                /\ UNCHANGED recipe_tags
        /\ inflight' = [inflight EXCEPT ![i].pc = "step",
                                        ![i].work = Tail(me.work)]
        /\ UNCHANGED <<tag, ingredient, recipe, tagSeq, ingSeq, recipeSeq,
                       last, prev>>

(* the serializer returns: the request is done *)
Return(i) ==
    /\ inflight[i].pc = "step"
    /\ inflight[i].work = <<>>
    /\ inflight' = [inflight EXCEPT ![i].pc = "done"]
    /\ UNCHANGED <<db_vars, last, prev>>

(* the response leaves and the worker takes the next request *)
Respond(i) ==
    /\ inflight[i].pc = "done"
    /\ last' = Response(inflight[i].op, inflight[i].user, inflight[i].rid,
                        inflight[i].req, inflight[i].status, <<>>)
    /\ inflight' = [inflight EXCEPT ![i] = IdleProc]
    /\ UNCHANGED <<db_vars, prev>>

InitConc ==
    /\ tag = {}
    /\ ingredient = {}
    /\ recipe = {}
    /\ recipe_tags = {}
    /\ recipe_ingredients = {}
    /\ tagSeq = 0
    /\ ingSeq = 0
    /\ recipeSeq = 0
    /\ last = NoResponse
    /\ prev = NoResponse
    /\ inflight = [i \in Procs |-> IdleProc]

NextConc ==
    \E i \in Procs :
        \/ \E u \in Users, p \in ConcCreates : BeginCreate(i, u, p)
        \/ \E u \in Users, id \in RecipeIds, p \in ConcPatches :
              BeginUpdate(i, u, id, p)
        \/ Clear(i)
        \/ Lookup(i)
        \/ Insert(i)
        \/ Link(i)
        \/ Return(i)
        \/ Respond(i)

SpecConc == InitConc /\ [][NextConc]_vars

----------------------------------------------------------------------------
(* Properties *)

OwnedBy(rows, id, u) == \E r \in rows : r.id = id /\ r.user = u

RecipeDetailOps ==
    {"recipe_retrieve", "recipe_put", "recipe_patch", "recipe_delete"}
TagDetailOps == {"tag_retrieve", "tag_update", "tag_delete"}
IngredientDetailOps ==
    {"ingredient_retrieve", "ingredient_update", "ingredient_delete"}

(* the table a detail request addresses *)
TableOf(op) ==
    IF op \in RecipeDetailOps THEN recipe
    ELSE IF op \in TagDetailOps THEN tag ELSE ingredient

(* C11: a Recipe list under a tags and / or ingredients filter answers    *)
(* exactly the caller's Recipes whose tag set (ingredient set) holds at   *)
(* least one listed id, both when both filters are given, each Recipe     *)
(* once and in descending id order; a Recipe with no tag is in no         *)
(* tags-filtered list.                                                    *)
C11_ListFilter ==
    (last.op = "recipe_list" /\ last.status = HTTP_200_OK) =>
       LET q == last.req
           hit(links, rid, ids) ==
              \E i \in 1..Len(ids) : <<rid, ids[i]>> \in links
           want == {r.id : r \in {x \in recipe :
                       /\ x.user = last.user
                       /\ q.tags # <<>> => hit(recipe_tags, x.id, q.tags)
                       /\ q.ingredients # <<>>
                             => hit(recipe_ingredients, x.id, q.ingredients)}}
       IN  /\ {last.body[i] : i \in 1..Len(last.body)} = want
           /\ \A i, j \in 1..Len(last.body) :
                 i < j => last.body[i] > last.body[j]

(* u1 lists with tags=1,2: the Recipe that carries both tags comes once,  *)
(* u1's untagged Recipe does not come                                     *)
C11_Witness ==
    /\ last.op = "recipe_list"
    /\ last.user = "u1"
    /\ last.req.tags = <<1, 2>>
    /\ Len(last.body) = 1
    /\ {<<last.body[1], 1>>, <<last.body[1], 2>>} \subseteq recipe_tags
    /\ \E r \in recipe : /\ r.user = "u1"
                         /\ TagsOf(recipe_tags, r.id) = {}

(* C1: every row a list response carries (Recipes with or without the     *)
(* tags / ingredients filters, Tags and Ingredients with or without       *)
(* assigned_only) is a row owned by the user who asked.                   *)
C1_ListOnlyOwnRows ==
    /\ last.op = "recipe_list" =>
          \A i \in 1..Len(last.body) : OwnedBy(recipe, last.body[i], last.user)
    /\ last.op = "tag_list" =>
          \A i \in 1..Len(last.body) : OwnedBy(tag, last.body[i], last.user)
    /\ last.op = "ingredient_list" =>
          \A i \in 1..Len(last.body) :
              OwnedBy(ingredient, last.body[i], last.user)

(* u1 lists Recipes under a tags filter and gets a row while u2 owns a    *)
(* Recipe and a Tag too                                                   *)
C1_Witness ==
    /\ last.op = "recipe_list"
    /\ last.user = "u1"
    /\ last.req.tags # <<>>
    /\ last.body # <<>>
    /\ \E r \in recipe : r.user = "u2"
    /\ \E t \in tag : t.user = "u2"

(* C2: a retrieve, update or delete of an id that is not a row of the     *)
(* caller, whether the id is absent or names a row of another user, ends  *)
(* in the same 404 response with an empty body and changes no table.      *)
C2_ForeignIsNotFound ==
    [][(/\ Idle
        /\ last'.op \in RecipeDetailOps \cup TagDetailOps \cup IngredientDetailOps
        /\ ~OwnedBy(TableOf(last'.op), last'.id, last'.user))
       => (/\ last'.status = HTTP_404_NOT_FOUND
           /\ last'.body = <<>>
           /\ UNCHANGED db_vars)]_vars

(* u2 asked to delete a Recipe of u1 that carries a tag *)
C2_Witness ==
    /\ last.op = "recipe_delete"
    /\ last.status = HTTP_404_NOT_FOUND
    /\ \E r \in recipe : /\ r.id = last.id
                         /\ r.user # last.user
                         /\ TagsOf(recipe_tags, r.id) # {}

(* C3: no step changes the owner of a Recipe; a create leaves a row owned *)
(* by the caller whatever 'user' the payload carries; an update whose     *)
(* payload carries 'user' does what the same payload without it does, and *)
(* one that carries nothing else answers 200.                             *)
C3_OwnerIsCreator ==
    [][/\ \A r \in recipe : \A r2 \in recipe' : r2.id = r.id => r2.user = r.user
       /\ (Idle /\ last'.op = "recipe_create"
                /\ last'.status # HTTP_400_BAD_REQUEST)
          => /\ OwnedBy(recipe', last'.id, last'.user)
             /\ ~\E r \in recipe : r.id = last'.id
       /\ (Idle /\ last'.op \in {"recipe_put", "recipe_patch"}
                /\ IsSome(last'.req.user))
          => LET p == last'.req
                 q == [p EXCEPT !.user = None]
                 partial == last'.op = "recipe_patch"
                 instance == CHOOSE r \in recipe : r.id = last'.id
             IN  /\ is_valid(q, partial) = is_valid(p, partial)
                 /\ update(instance, validated_data(q, RecipeFields), last'.user)
                      = update(instance, validated_data(p, RecipeFields),
                               last'.user)
                 /\ q = NoPayload => last'.status = HTTP_200_OK]_vars

(* u1 patched a Recipe with {user: u2}: 200, and the Recipe is still u1's *)
C3_Witness ==
    /\ last.op = "recipe_patch"
    /\ last.user = "u1"
    /\ last.req = [NoPayload EXCEPT !.user = Some("u2")]
    /\ last.status = HTTP_200_OK
    /\ OwnedBy(recipe, last.id, "u1")

(* C4: when a user's Recipe create that named a tag is followed directly  *)
(* by another Recipe create of that user naming the same tag, both        *)
(* answered 201, the second adds no Tag row of that name: there is        *)
(* exactly one Tag row with that owner and name, linked to both Recipes.  *)
C4_SecondCreateReusesTag ==
    [][(/\ Idle
        /\ prev.op = "recipe_create" /\ prev.status = HTTP_201_CREATED
        /\ last'.op = "recipe_create" /\ last'.status = HTTP_201_CREATED
        /\ last'.user = prev.user)
       => \A n \in NamesIn(prev.req.tags) \cap NamesIn(last'.req.tags) :
             /\ Named(tag', prev.user, n) = Named(tag, prev.user, n)
             /\ Cardinality(Named(tag', prev.user, n)) = 1
             /\ \A t \in Named(tag', prev.user, n) :
                   /\ <<prev.id, t.id>> \in recipe_tags'
                   /\ <<last'.id, t.id>> \in recipe_tags']_vars

(* two creates of u1 in a row, both with tag "a": one row, two links *)
C4_Witness ==
    /\ prev.op = "recipe_create" /\ prev.status = HTTP_201_CREATED
    /\ last.op = "recipe_create" /\ last.status = HTTP_201_CREATED
    /\ prev.user = "u1" /\ last.user = "u1"
    /\ "a" \in NamesIn(prev.req.tags) \cap NamesIn(last.req.tags)
    /\ Cardinality(Named(tag, "u1", "a")) = 1
    /\ \A t \in Named(tag, "u1", "a") :
          {<<prev.id, t.id>>, <<last.id, t.id>>} \subseteq recipe_tags
    /\ prev.id # last.id

(* C5: a Recipe create whose tags payload holds n distinct names, none of *)
(* them the name of a Tag of the caller, adds exactly n Tag rows, one per *)
(* name, all owned by the caller, and the new Recipe's tag set is exactly *)
(* those rows, whatever Tags of those names other users own.              *)
C5_NewTagsCreated ==
    [][(/\ Idle
        /\ last'.op = "recipe_create"
        /\ last'.status # HTTP_400_BAD_REQUEST
        /\ IsSome(last'.req.tags)
        /\ \A i, j \in 1..Len(Val(last'.req.tags)) :
              i # j => Val(last'.req.tags)[i] # Val(last'.req.tags)[j]
        /\ \A n \in NamesIn(last'.req.tags) : Named(tag, last'.user, n) = {})
       => LET added == tag' \ tag
          IN  /\ tag \subseteq tag'
              /\ Cardinality(added) = Len(Val(last'.req.tags))
              /\ \A t \in added : t.user = last'.user
              /\ {t.name : t \in added} = NamesIn(last'.req.tags)
              /\ TagsOf(recipe_tags', last'.id) = {t.id : t \in added}]_vars

(* u1 created a Recipe with two new tags: both rows are u1's and they are *)
(* the Recipe's tag set                                                   *)
C5_Witness ==
    /\ last.op = "recipe_create"
    /\ last.status = HTTP_201_CREATED
    /\ last.user = "u1"
    /\ last.req.tags = Some(<<"a", "b">>)
    /\ TagsOf(recipe_tags, last.id) = {tagSeq - 1, tagSeq}
    /\ \A n \in {"a", "b"} : Cardinality(Named(tag, "u1", n)) = 1
    /\ \E r \in recipe : r.user = "u2"

(* C6 as claimed: after an update answered 200 whose payload carries      *)
(* 'tags', the Recipe's tag set is exactly the owner's Tag rows of the    *)
(* names in the payload (none for an empty list), and every Tag row that  *)
(* existed still exists.                                                  *)
C6_TagsReplaced ==
    [][(/\ Idle
        /\ last'.op \in {"recipe_put", "recipe_patch"}
        /\ last'.status = HTTP_200_OK
        /\ IsSome(last'.req.tags))
       => /\ TagsOf(recipe_tags', last'.id)
               = {t.id : t \in {x \in tag' :
                                  /\ x.user = last'.user
                                  /\ x.name \in NamesIn(last'.req.tags)}}
          /\ tag \subseteq tag']_vars

(* C7 as claimed: after an update answered 200 whose payload carries      *)
(* 'ingredients', the Recipe's ingredient set is exactly the owner's      *)
(* Ingredient rows of the names in the payload, and with no 'tags' key    *)
(* the Recipe's tag set and the Tag rows are as before.                   *)
C7_IngredientsReplaced ==
    [][(/\ Idle
        /\ last'.op \in {"recipe_put", "recipe_patch"}
        /\ last'.status = HTTP_200_OK
        /\ IsSome(last'.req.ingredients))
       => /\ TagsOf(recipe_ingredients', last'.id)
               = {t.id : t \in {x \in ingredient' :
                                  /\ x.user = last'.user
                                  /\ x.name \in NamesIn(last'.req.ingredients)}}
          /\ ~IsSome(last'.req.tags)
               => /\ TagsOf(recipe_tags', last'.id) = TagsOf(recipe_tags, last'.id)
                  /\ tag' = tag]_vars

ScalarFields == {"title", "time_minutes", "price", "link", "description"}

(* C8 as claimed: a PATCH answered 200 leaves every field whose key is    *)
(* absent, the owner, the tag set when 'tags' is absent and the           *)
(* ingredient set when 'ingredients' is absent as they were.              *)
C8_PartialUpdateFrame ==
    [][(/\ Idle
        /\ last'.op = "recipe_patch"
        /\ last'.status = HTTP_200_OK)
       => LET old == CHOOSE r \in recipe : r.id = last'.id
              new == CHOOSE r \in recipe' : r.id = last'.id
          IN  /\ \A k \in ScalarFields :
                    ~IsSome(last'.req[k]) => new[k] = old[k]
              /\ new.user = old.user
              /\ ~IsSome(last'.req.tags)
                    => TagsOf(recipe_tags', last'.id)
                         = TagsOf(recipe_tags, last'.id)
              /\ ~IsSome(last'.req.ingredients)
                    => TagsOf(recipe_ingredients', last'.id)
                         = TagsOf(recipe_ingredients, last'.id)]_vars

(* C9: every Tag and every Ingredient a Recipe is linked to exists and is *)
(* owned by the owner of that Recipe.                                     *)
C9_LinksWithinOwner ==
    /\ \A l \in recipe_tags :
          \E r \in recipe, t \in tag :
              r.id = l[1] /\ t.id = l[2] /\ t.user = r.user
    /\ \A l \in recipe_ingredients :
          \E r \in recipe, t \in ingredient :
              r.id = l[1] /\ t.id = l[2] /\ t.user = r.user

(* u1 posted a Recipe with tags, an ingredient and 'user': u2 in the      *)
(* payload while u2 owns rows too; the links stay within u1's rows        *)
C9_Witness ==
    /\ last.op = "recipe_create"
    /\ last.user = "u1"
    /\ last.req.user = Some("u2")
    /\ last.status = HTTP_201_CREATED
    /\ TagsOf(recipe_tags, last.id) # {}
    /\ \E t \in tag : t.user = "u2"
    /\ recipe_ingredients # {}

(* C10 as claimed: whatever the interleaving of concurrent Recipe creates *)
(* and updates, no owner ever has two Tag rows or two Ingredient rows of  *)
(* one name, and when two requests of one user that named the same tag    *)
(* are both done without error, both Recipes are linked to that one row.  *)
C10_RaceSafeGetOrCreate ==
    /\ \A u \in Users, n \in Names :
          /\ Cardinality(Named(tag, u, n)) <= 1
          /\ Cardinality(Named(ingredient, u, n)) <= 1
    /\ \A i, j \in DOMAIN inflight :
          (/\ i # j
           /\ inflight[i].pc = "done" /\ inflight[j].pc = "done"
           /\ inflight[i].status # HTTP_500_INTERNAL_SERVER_ERROR
           /\ inflight[j].status # HTTP_500_INTERNAL_SERVER_ERROR
           /\ inflight[i].user = inflight[j].user)
          => \A n \in NamesIn(inflight[i].req.tags)
                        \cap NamesIn(inflight[j].req.tags) :
                \E t \in Named(tag, inflight[i].user, n) :
                    {<<inflight[i].rid, t.id>>, <<inflight[j].rid, t.id>>}
                        \subseteq recipe_tags

(* C12: a Recipe delete answered 204 removes that row and its tag and     *)
(* ingredient links and leaves every Tag row, Ingredient row, other       *)
(* Recipe row and other link as it was; an id that was given out and has  *)
(* no row stays without a row, and every retrieve of it answers 404.      *)
C12_DeleteRemoves ==
    [][/\ (Idle /\ last'.op = "recipe_delete"
                /\ last'.status = HTTP_204_NO_CONTENT)
          => /\ OwnedBy(recipe, last'.id, last'.user)
             /\ recipe' = {r \in recipe : r.id # last'.id}
             /\ recipe_tags' = {l \in recipe_tags : l[1] # last'.id}
             /\ recipe_ingredients'
                  = {l \in recipe_ingredients : l[1] # last'.id}
             /\ tag' = tag
             /\ ingredient' = ingredient
       /\ \A id \in 1..recipeSeq :
             (~\E r \in recipe : r.id = id)
             => /\ ~\E r \in recipe' : r.id = id
                /\ ~\E l \in recipe_tags' \cup recipe_ingredients' : l[1] = id
                /\ (Idle /\ last'.op = "recipe_retrieve" /\ last'.id = id)
                      => last'.status = HTTP_404_NOT_FOUND]_vars

(* the owner retrieves the id of a Recipe deleted earlier and gets 404,   *)
(* while another Recipe of theirs, and a Tag and an Ingredient of theirs  *)
(* that no Recipe links any more, are still there                         *)
C12_Witness ==
    /\ last.op = "recipe_retrieve"
    /\ last.status = HTTP_404_NOT_FOUND
    /\ last.id \in 1..recipeSeq
    /\ ~\E r \in recipe : r.id = last.id
    /\ \E r \in recipe : r.user = last.user
    /\ \E t \in tag : t.user = last.user /\ ~\E l \in recipe_tags : l[2] = t.id
    /\ \E t \in ingredient :
          t.user = last.user /\ ~\E l \in recipe_ingredients : l[2] = t.id

(* C13 as claimed: no Recipe row ever holds a negative time_minutes, and  *)
(* a create or update whose payload carries a negative time_minutes       *)
(* answers 400 and changes no table.                                      *)
C13_TimeNonNegative ==
    [][/\ \A r \in recipe' : r.time_minutes >= 0
       /\ (/\ Idle
           /\ last'.op \in {"recipe_create", "recipe_put", "recipe_patch"}
           /\ last'.status # HTTP_404_NOT_FOUND
           /\ IsSome(last'.req.time_minutes)
           /\ Val(last'.req.time_minutes) < 0)
          => /\ last'.status = HTTP_400_BAD_REQUEST
             /\ UNCHANGED db_vars]_vars

(* C14 as claimed: whatever requests were served, Tag and Ingredient      *)
(* creates and renames among them, no owner holds two Tag rows or two     *)
(* Ingredient rows of one name, and no Recipe create or update ends in    *)
(* the error of a lookup that matched several rows.                       *)
C14_UniqueOwnerName ==
    /\ \A t1, t2 \in tag :
          (t1.user = t2.user /\ t1.name = t2.name) => t1.id = t2.id
    /\ \A i1, i2 \in ingredient :
          (i1.user = i2.user /\ i1.name = i2.name) => i1.id = i2.id
    /\ last.op \in {"recipe_create", "recipe_put", "recipe_patch"}
          => last.status # HTTP_500_INTERNAL_SERVER_ERROR

(* C15 as claimed: a Recipe create or update that ends in an error, 400   *)
(* or 500, leaves the Recipe, Tag and Ingredient rows and both link       *)
(* tables exactly as they were.                                           *)
C15_AllOrNothing ==
    [][(/\ Idle
        /\ last'.op \in {"recipe_create", "recipe_put", "recipe_patch"}
        /\ last'.status \in {HTTP_400_BAD_REQUEST,
                              HTTP_500_INTERNAL_SERVER_ERROR})
       => UNCHANGED <<recipe, tag, ingredient, recipe_tags,
                      recipe_ingredients>>]_vars

====
